---------------------------- MODULE Spec2Model ----------------------------
(***************************************************************************)
(* Model of two zenmap widgets:                                            *)
(*   zenmapGUI/ProfileCombo.py        ProfileCombo  (specification Spec)    *)
(*   zenmapGUI/higwidgets/higframe.py HIGFrame      (specification          *)
(*                                                   SpecFrame)            *)
(* A Python str is a sequence of code points, so that list.sort() and the   *)
(* "%s" formatting are computed and not assumed.                            *)
(***************************************************************************)
EXTENDS Naturals, Sequences, FiniteSets

VARIABLES
    constructed,       \* ProfileCombo.__init__ has run
    stores,            \* the Gtk.ListStore objects: id -> rows (column 0)
    model,             \* the store the combo box displays (get_model())
    completion_model,  \* the store self.completion suggests from
    entry_text,        \* text of the child entry (get_child().get_text())
    scan_profile,      \* the profile file CommandProfile() reads
    call,              \* the last call made on the combo and what it observed
    shadow_type,       \* HIGFrame: Gtk.Frame shadow type
    flabel,            \* HIGFrame._flabel: the Gtk.Label object
    label_widget,      \* HIGFrame: the frame's label widget
    flabel_label,      \* the "label" property of _flabel (the markup string)
    flabel_text,       \* what _flabel renders: a sequence of [ch, bold]
    fcall              \* the last call made on the frame

comboVars == <<constructed, stores, model, completion_model, entry_text,
               scan_profile, call>>
frameVars == <<shadow_type, flabel, label_widget, flabel_label, flabel_text,
               fcall>>
vars == <<comboVars, frameVars>>

-----------------------------------------------------------------------------
(* Bounds and input sets *)

\* longest sequence handed to set_profiles by a caller
MaxProfiles == 2

IntenseScan == <<73, 110, 116, 101, 110, 115, 101, 32, 83, 99, 97, 110>>
QuickScan   == <<81, 117, 105, 99, 107, 32, 83, 99, 97, 110>>
PingScan    == <<80, 105, 110, 103, 32, 83, 99, 97, 110>>
\* "nmap -sn": a text that is no profile name
CustomText  == <<110, 109, 97, 112, 32, 45, 115, 110>>
EmptyText   == <<>>

ProfileNames == {IntenseScan, QuickScan, PingScan}
EntryTexts   == {PingScan, CustomText, EmptyText}

RECURSIVE SeqsUpTo(_, _)
SeqsUpTo(S, n) ==
    IF n = 0 THEN {<<>>}
    ELSE LET shorter == SeqsUpTo(S, n - 1)
         IN  shorter \cup {Append(s, x) : s \in shorter, x \in S}

ProfileLists == SeqsUpTo(ProfileNames, MaxProfiles)

Range(s) == {s[k] : k \in DOMAIN s}

-----------------------------------------------------------------------------
(* Python str comparison and list.sort() *)

\* a < b on str: the first differing code point decides, a proper prefix is
\* smaller
RECURSIVE StrLess(_, _)
StrLess(a, b) ==
    IF b = <<>> THEN FALSE
    ELSE IF a = <<>> THEN TRUE
    ELSE IF Head(a) # Head(b) THEN Head(a) < Head(b)
    ELSE StrLess(Tail(a), Tail(b))

\* x goes after every element that is not greater than it (the sort is stable)
RECURSIVE InsertSorted(_, _)
InsertSorted(x, s) ==
    IF s = <<>> THEN <<x>>
    ELSE IF StrLess(x, Head(s)) THEN <<x>> \o s
    ELSE <<Head(s)>> \o InsertSorted(x, Tail(s))

\* the sort left out
ListSortOmitted(s) == s

RECURSIVE ListSort(_)
ListSort(s) ==
    IF s = <<>> THEN <<>>
    ELSE InsertSorted(s[Len(s)], ListSort(SubSeq(s, 1, Len(s) - 1)))

-----------------------------------------------------------------------------
(* zenmapCore.UmitConf.CommandProfile, the configuration collaborator *)

NoFile == [present |-> FALSE, sections |-> <<>>]

\* CommandProfile().sections(): the section names of the profile file in
\* file order, none when there is no file
CommandProfile_sections(file) ==
    IF file.present THEN file.sections ELSE <<>>

-----------------------------------------------------------------------------
(* ProfileCombo *)

NoCall == [op |-> "none", arg |-> <<>>, returned |-> <<>>, n |-> 0,
           ndel |-> 0, cleared |-> 0, raised |-> FALSE, pre_text |-> <<>>,
           pre_rows |-> <<>>, pre_listed |-> FALSE]

\* Gtk.ListStore(str): a new, empty store under an id not in use
NewStore(st) == CHOOSE id \in {"store1", "store2"} : id \notin DOMAIN st

\* the loop run once too often: range(len(list) + 1)
RECURSIVE ClearLoopOnceMore(_, _, _)
ClearLoopOnceMore(rows, i, n) ==
    IF i = n + 1 THEN [rows |-> rows, ndel |-> i, raised |-> FALSE]
    ELSE IF rows = <<>> THEN [rows |-> rows, ndel |-> i, raised |-> TRUE]
    ELSE ClearLoopOnceMore(Tail(rows), i + 1, n)

\* the row at the loop index deleted instead of the first row: del(list[i])
RECURSIVE ClearLoopByIndex(_, _, _)
ClearLoopByIndex(rows, i, n) ==
    IF i = n THEN [rows |-> rows, ndel |-> i, raised |-> FALSE]
    ELSE IF i + 1 > Len(rows) THEN [rows |-> rows, ndel |-> i, raised |-> TRUE]
    ELSE ClearLoopByIndex(SubSeq(rows, 1, i) \o SubSeq(rows, i + 2, Len(rows)),
                          i + 1, n)

\* lines 83-85, continued at iteration i of range(n):
\*     iter = list.get_iter_first(); del(list[iter])
\* get_iter_first() is None on an empty store and del(list[None]) raises
RECURSIVE ClearLoop(_, _, _)
ClearLoop(rows, i, n) ==
    IF i = n THEN [rows |-> rows, ndel |-> i, raised |-> FALSE]
    ELSE IF rows = <<>> THEN [rows |-> rows, ndel |-> i, raised |-> TRUE]
    ELSE ClearLoop(Tail(rows), i + 1, n)

\* a name already in the store skipped
RECURSIVE AppendLoopUnique(_, _)
AppendLoopUnique(rows, profiles) ==
    IF profiles = <<>> THEN rows
    ELSE IF Head(profiles) \in Range(rows)
    THEN AppendLoopUnique(rows, Tail(profiles))
    ELSE AppendLoopUnique(Append(rows, Head(profiles)), Tail(profiles))

\* lines 87-88: for command in profiles: list.append([command])
RECURSIVE AppendLoop(_, _)
AppendLoop(rows, profiles) ==
    IF profiles = <<>> THEN rows
    ELSE AppendLoop(Append(rows, Head(profiles)), Tail(profiles))

\* a new store built and displayed instead of the bound one being refilled
set_profiles_new_store(st, m, profiles) ==
    LET new == IF m = "store1" THEN "store2" ELSE "store1"
    IN  [stores |-> [id \in {m, new} |-> IF id = new THEN profiles ELSE st[m]],
         model |-> new, n |-> Len(st[m]), ndel |-> Len(st[m]), cleared |-> 0,
         raised |-> FALSE]

\* set_profiles on the stores st with the combo displaying store m
set_profiles_result(st, m, profiles) ==
    LET list == m
        n    == Len(st[list])
        cl   == ClearLoop(st[list], 0, n)
        rows == IF cl.raised THEN cl.rows ELSE AppendLoop(cl.rows, profiles)
    IN  [stores |-> [st EXCEPT ![list] = rows], model |-> m, n |-> n,
         ndel |-> cl.ndel, cleared |-> Len(cl.rows), raised |-> cl.raised]

\* the sorted sections written back to the profile file
update_result_saving(st, m, file) ==
    LET returned == CommandProfile_sections(file)
        profiles == ListSort(returned)
        r        == set_profiles_result(st, m, profiles)
    IN  [stores |-> r.stores, model |-> r.model,
         scan_profile |-> [present |-> TRUE, sections |-> profiles],
         returned |-> returned, n |-> r.n, ndel |-> r.ndel,
         cleared |-> r.cleared, raised |-> r.raised]

\* update on the stores st, the displayed store m and the profile file
update_result(st, m, file) ==
    LET returned == CommandProfile_sections(file)
        profiles == ListSort(returned)
        r        == set_profiles_result(st, m, profiles)
    IN  [stores |-> r.stores, model |-> r.model, scan_profile |-> file,
         returned |-> returned, n |-> r.n, ndel |-> r.ndel,
         cleared |-> r.cleared, raised |-> r.raised]

get_selected_profile == entry_text

\* the rows the combo box displays and the rows the completion suggests
Displayed == stores[model]
Suggested == stores[completion_model]

ProfileCombo_init ==
    /\ ~constructed
    /\ LET s  == NewStore(stores)
           st == [id \in {s} |-> <<>>]
           r  == update_result(st, s, scan_profile)
       IN  /\ stores' = r.stores
           /\ model' = r.model
           /\ completion_model' = s
           /\ scan_profile' = r.scan_profile
           /\ call' = [NoCall EXCEPT !.op = "init", !.returned = r.returned,
                          !.n = r.n, !.ndel = r.ndel, !.cleared = r.cleared,
                          !.raised = r.raised]
    /\ constructed' = TRUE
    /\ entry_text' = EmptyText
    /\ UNCHANGED frameVars

\* the entry emptied when its text was a row that is removed
set_profiles_resetting_entry(profiles) ==
    /\ constructed
    /\ LET r == set_profiles_result(stores, model, profiles)
       IN  /\ stores' = r.stores
           /\ model' = r.model
           /\ call' = [NoCall EXCEPT !.op = "set_profiles", !.arg = profiles,
                          !.n = r.n, !.ndel = r.ndel, !.cleared = r.cleared,
                          !.raised = r.raised, !.pre_text = entry_text,
                          !.pre_listed = entry_text \in Range(Displayed)]
    /\ entry_text' = IF entry_text \in Range(Displayed) \ Range(profiles)
                     THEN EmptyText ELSE entry_text
    /\ UNCHANGED <<constructed, completion_model, scan_profile>>
    /\ UNCHANGED frameVars

set_profiles(profiles) ==
    /\ constructed
    /\ LET r == set_profiles_result(stores, model, profiles)
       IN  /\ stores' = r.stores
           /\ model' = r.model
           /\ call' = [NoCall EXCEPT !.op = "set_profiles", !.arg = profiles,
                          !.n = r.n, !.ndel = r.ndel, !.cleared = r.cleared,
                          !.raised = r.raised, !.pre_text = entry_text,
                          !.pre_listed = entry_text \in Range(Displayed)]
    /\ UNCHANGED <<constructed, completion_model, entry_text, scan_profile>>
    /\ UNCHANGED frameVars

update ==
    /\ constructed
    /\ LET r == update_result(stores, model, scan_profile)
       IN  /\ stores' = r.stores
           /\ model' = r.model
           /\ scan_profile' = r.scan_profile
           /\ call' = [NoCall EXCEPT !.op = "update", !.returned = r.returned,
                          !.n = r.n, !.ndel = r.ndel, !.cleared = r.cleared,
                          !.raised = r.raised, !.pre_text = entry_text]
    /\ UNCHANGED <<constructed, completion_model, entry_text>>
    /\ UNCHANGED frameVars

\* a text that is no row of the list refused
set_text_if_listed(profile) ==
    IF profile \in Range(stores[model]) THEN profile ELSE entry_text

\* self.get_child().set_text(profile)
set_text(profile) == profile

set_selected_profile(profile) ==
    /\ constructed
    /\ entry_text' = set_text(profile)
    /\ call' = [NoCall EXCEPT !.op = "set_selected_profile", !.arg = profile,
                   !.pre_rows = Displayed, !.pre_text = entry_text]
    /\ UNCHANGED <<constructed, stores, model, completion_model, scan_profile>>
    /\ UNCHANGED frameVars

\* the profile file changes between calls: a profile is saved or deleted, or
\* the file itself is removed or created. Section names of one file are
\* distinct (a profile name is unique among the profiles loaded).
AddSection(name) ==
    /\ scan_profile.present
    /\ name \notin Range(scan_profile.sections)
    /\ scan_profile' = [scan_profile EXCEPT !.sections = Append(@, name)]
    /\ call' = NoCall
    /\ UNCHANGED <<constructed, stores, model, completion_model, entry_text>>
    /\ UNCHANGED frameVars

RemoveSection(k) ==
    /\ scan_profile.present
    /\ k \in 1..Len(scan_profile.sections)
    /\ scan_profile' = [scan_profile EXCEPT !.sections =
                           SubSeq(@, 1, k - 1) \o SubSeq(@, k + 1, Len(@))]
    /\ call' = NoCall
    /\ UNCHANGED <<constructed, stores, model, completion_model, entry_text>>
    /\ UNCHANGED frameVars

CreateFile ==
    /\ ~scan_profile.present
    /\ scan_profile' = [present |-> TRUE, sections |-> <<>>]
    /\ call' = NoCall
    /\ UNCHANGED <<constructed, stores, model, completion_model, entry_text>>
    /\ UNCHANGED frameVars

RemoveFile ==
    /\ scan_profile.present
    /\ scan_profile' = NoFile
    /\ call' = NoCall
    /\ UNCHANGED <<constructed, stores, model, completion_model, entry_text>>
    /\ UNCHANGED frameVars


-----------------------------------------------------------------------------
(* HIGFrame *)

\* a label argument: the None object or a str
None      == [type |-> "NoneType"]
Str(cps)  == [type |-> "str", value |-> cps]

\* the labels the frame is given: None and the strs
\*   "" "A" "Ab" "A>b" "Sample HIGFrame" "&" "A&b" "&amp;" "&lt" "&x;"
\*   "&lt;b&gt;" "<" "A<b" "<b>" "</b>" "<b/>" "<i>A</i>" "</b>A<b>"
\*   "<b><i></b></i>"
Labels ==
    {None,
     Str(<<>>),
     Str(<<65>>),
     Str(<<65, 98>>),
     Str(<<65, 62, 98>>),
     Str(<<83, 97, 109, 112, 108, 101, 32, 72, 73, 71, 70, 114, 97, 109, 101>>),
     Str(<<38>>),
     Str(<<65, 38, 98>>),
     Str(<<38, 97, 109, 112, 59>>),
     Str(<<38, 108, 116>>),
     Str(<<38, 120, 59>>),
     Str(<<38, 108, 116, 59, 98, 38, 103, 116, 59>>),
     Str(<<60>>),
     Str(<<65, 60, 98>>),
     Str(<<60, 98, 62>>),
     Str(<<60, 47, 98, 62>>),
     Str(<<60, 98, 47, 62>>),
     Str(<<60, 105, 62, 65, 60, 47, 105, 62>>),
     Str(<<60, 47, 98, 62, 65, 60, 98, 62>>),
     Str(<<60, 98, 62, 60, 105, 62, 60, 47, 98, 62, 60, 47, 105, 62>>)}

\* a missing label formatted as the empty string
PercentSOrEmpty(label) ==
    IF label.type = "NoneType" THEN <<>> ELSE label.value

\* str(label) as "%s" formats it: str(None) is "None"
PercentS(label) ==
    IF label.type = "NoneType" THEN <<78, 111, 110, 101>> ELSE label.value

\* "<b>%s</b>" % label
BoldMarkup(label) == <<60, 98, 62>> \o PercentS(label) \o <<60, 47, 98, 62>>

\* position of the first c in s, 0 when there is none
IndexOf(s, c) ==
    IF \E k \in DOMAIN s : s[k] = c
    THEN CHOOSE k \in DOMAIN s : s[k] = c /\ \A j \in 1..(k - 1) : s[j] # c
    ELSE 0

\* the markup tags the labels use: b and i
KnownTags == {<<98>>, <<105>>}

\* the entity references of the markup language: &amp; &lt; &gt; &quot; &apos;
Entity(name) ==
    IF name = <<97, 109, 112>> THEN <<38>>
    ELSE IF name = <<108, 116>> THEN <<60>>
    ELSE IF name = <<103, 116>> THEN <<62>>
    ELSE IF name = <<113, 117, 111, 116>> THEN <<34>>
    ELSE IF name = <<97, 112, 111, 115>> THEN <<39>>
    ELSE <<>>

MarkupError == [ok |-> FALSE, text |-> <<>>]

\* The markup parse behind Gtk.Label.set_markup: s is the markup left to
\* read, open the stack of open elements (innermost last), out the characters
\* read so far, each with the elements it lies in.
RECURSIVE ParseMarkup(_, _, _)
ParseMarkup(s, open, out) ==
    IF s = <<>>
    THEN IF open = <<>> THEN [ok |-> TRUE, text |-> out] ELSE MarkupError
    ELSE IF Head(s) = 38
    THEN LET semi == IndexOf(s, 59)
             ch   == IF semi = 0 THEN <<>> ELSE Entity(SubSeq(s, 2, semi - 1))
         IN  IF ch = <<>> THEN MarkupError
             ELSE ParseMarkup(SubSeq(s, semi + 1, Len(s)), open,
                      Append(out, [ch |-> ch[1], tags |-> Range(open)]))
    ELSE IF Head(s) = 60
    THEN LET gt   == IndexOf(s, 62)
             tag  == SubSeq(s, 2, gt - 1)
             rest == SubSeq(s, gt + 1, Len(s))
         IN  IF gt = 0 \/ tag = <<>> THEN MarkupError
             ELSE IF Head(tag) = 47
             THEN IF open # <<>> /\ open[Len(open)] = Tail(tag)
                  THEN ParseMarkup(rest, SubSeq(open, 1, Len(open) - 1), out)
                  ELSE MarkupError
             ELSE IF tag[Len(tag)] = 47
             THEN IF SubSeq(tag, 1, Len(tag) - 1) \in KnownTags
                  THEN ParseMarkup(rest, open, out)
                  ELSE MarkupError
             ELSE IF tag \in KnownTags
                  THEN ParseMarkup(rest, Append(open, tag), out)
                  ELSE MarkupError
    ELSE ParseMarkup(Tail(s), open,
             Append(out, [ch |-> Head(s), tags |-> Range(open)]))

\* Gtk.Label.set_markup(markup) on a label rendering old: markup that does
\* not parse is reported as a warning and leaves the rendering as it was
set_markup(markup, old) ==
    LET p == ParseMarkup(markup, <<>>, <<>>)
    IN  IF p.ok THEN p.text ELSE old

NoFrameCall == [op |-> "none", arg |-> None, pre_flabel |-> "none",
                pre_shadow |-> "unset"]

HIGFrame_init(label) ==
    /\ flabel = "none"
    /\ shadow_type' = "NONE"
    /\ flabel' = "label1"
    /\ flabel_label' = BoldMarkup(label)
    /\ flabel_text' = set_markup(BoldMarkup(label), <<>>)
    /\ label_widget' = flabel'
    /\ fcall' = [NoFrameCall EXCEPT !.op = "init", !.arg = label]
    /\ UNCHANGED comboVars

HIGFrame_set_label(label) ==
    /\ flabel # "none"
    /\ flabel_label' = BoldMarkup(label)
    /\ flabel_text' = set_markup(BoldMarkup(label), flabel_text)
    /\ fcall' = [op |-> "_set_label", arg |-> label, pre_flabel |-> flabel,
                 pre_shadow |-> shadow_type]
    /\ UNCHANGED <<shadow_type, flabel, label_widget>>
    /\ UNCHANGED comboVars

\* the caption's characters, and those of them rendered bold
CaptionText == [k \in DOMAIN flabel_text |-> flabel_text[k].ch]
IsBold(c) == <<98>> \in c.tags
EmphasizedText ==
    LET bold == SelectSeq(flabel_text, IsBold)
    IN  [k \in DOMAIN bold |-> bold[k].ch]

-----------------------------------------------------------------------------
(* Specifications *)

NoFrame ==
    /\ shadow_type = "unset"
    /\ flabel = "none"
    /\ label_widget = "none"
    /\ flabel_label = <<>>
    /\ flabel_text = <<>>
    /\ fcall = NoFrameCall

NoCombo ==
    /\ constructed = FALSE
    /\ stores = <<>>
    /\ model = "none"
    /\ completion_model = "none"
    /\ entry_text = EmptyText
    /\ scan_profile = NoFile
    /\ call = NoCall

Init == NoCombo /\ NoFrame

Next ==
    \/ ProfileCombo_init
    \/ \E profiles \in ProfileLists : set_profiles(profiles)
    \/ update
    \/ \E profile \in EntryTexts : set_selected_profile(profile)
    \/ \E name \in ProfileNames : AddSection(name)
    \/ \E k \in DOMAIN scan_profile.sections : RemoveSection(k)
    \/ CreateFile
    \/ RemoveFile

Spec == Init /\ [][Next]_vars

NextFrame ==
    \/ \E label \in Labels : HIGFrame_init(label)
    \/ \E label \in Labels : HIGFrame_set_label(label)

SpecFrame == Init /\ [][NextFrame]_vars

-----------------------------------------------------------------------------
(* Properties *)

\* a <= b in code point order, stated without recursion
LexLeq(a, b) ==
    \/ a = b
    \/ \E k \in 1..(Len(b)) :
          /\ \A j \in 1..(k - 1) : j <= Len(a) /\ a[j] = b[j]
          /\ (k > Len(a) \/ a[k] < b[k])

IsAscending(l) == \A k \in 1..(Len(l) - 1) : LexLeq(l[k], l[k + 1])

Count(l, x) == Cardinality({k \in DOMAIN l : l[k] = x})

SameMultiset(a, b) ==
    \A x \in Range(a) \cup Range(b) : Count(a, x) = Count(b, x)

\* C1: after set_profiles(names) the displayed list is names itself: the same
\* elements in the same order and multiplicity, nothing of the prior list
\* left, nothing deduplicated or reordered.
C1_SetProfilesVerbatim ==
    call.op = "set_profiles" => Displayed = call.arg

C1_Witness ==
    /\ call.op = "set_profiles"
    /\ call.arg = <<QuickScan, QuickScan>>
    /\ call.n = 3
    /\ Displayed = <<QuickScan, QuickScan>>

\* C2: after update() the displayed list is the names sections() returned,
\* sorted ascending, each name as often as it was returned; Intense Scan,
\* Quick Scan, Ping Scan is displayed as Intense Scan, Ping Scan, Quick Scan.
C2_UpdateSorted ==
    call.op = "update" =>
        /\ IsAscending(Displayed)
        /\ SameMultiset(Displayed, call.returned)
        /\ call.returned = <<IntenseScan, QuickScan, PingScan>>
               => Displayed = <<IntenseScan, PingScan, QuickScan>>

C2_Witness ==
    /\ call.op = "update"
    /\ call.returned = <<IntenseScan, QuickScan, PingScan>>
    /\ call.n = 2
    /\ Displayed = <<IntenseScan, PingScan, QuickScan>>

\* C3: set_selected_profile(x) followed by get_selected_profile() gives x,
\* also for an x that is not in the list, and the displayed list is as it was.
C3_SelectedRoundTrip ==
    call.op = "set_selected_profile" =>
        /\ get_selected_profile = call.arg
        /\ Displayed = call.pre_rows

C3_Witness ==
    /\ call.op = "set_selected_profile"
    /\ call.arg = CustomText
    /\ Displayed # <<>>
    /\ CustomText \notin Range(Displayed)
    /\ call.pre_text = PingScan
    /\ get_selected_profile = CustomText

\* C4: set_profiles([]) leaves the displayed list empty and the selected text
\* as it was before the call, also when that text was one of the rows removed.
C4_SetEmptyKeepsSelection ==
    (call.op = "set_profiles" /\ call.arg = <<>>) =>
        /\ Displayed = <<>>
        /\ get_selected_profile = call.pre_text

C4_Witness ==
    /\ call.op = "set_profiles"
    /\ call.arg = <<>>
    /\ call.n > 0
    /\ call.pre_listed
    /\ call.pre_text = PingScan
    /\ get_selected_profile = PingScan
    /\ Displayed = <<>>

\* C5: update() leaves the profile source as it was: reading the sections
\* again after update() gives what sections() returned inside it, in the
\* same order.
C5_UpdateLeavesSource ==
    call.op \in {"update", "init"} =>
        CommandProfile_sections(scan_profile) = call.returned

C5_Witness ==
    /\ call.op = "update"
    /\ call.returned = <<QuickScan, PingScan, IntenseScan>>
    /\ Displayed = <<IntenseScan, PingScan, QuickScan>>
    /\ scan_profile.sections = <<QuickScan, PingScan, IntenseScan>>

\* C6: when sections() yields no names, or there is no profile file, update()
\* and the constructor finish without raising and the displayed list is empty.
C6_EmptySourceNoError ==
    (call.op \in {"update", "init"} /\ call.returned = <<>>) =>
        /\ ~call.raised
        /\ Displayed = <<>>

C6_Witness ==
    /\ call.op = "update"
    /\ ~scan_profile.present
    /\ call.n > 0
    /\ ~call.raised
    /\ Displayed = <<>>

\* C8: the clearing loop of set_profiles, for a prior list of any length n,
\* makes exactly n deletions, never asks an empty list for its first row, and
\* leaves the list empty before the first name is appended.
C8_ClearLoopSafe ==
    call.op \in {"set_profiles", "update", "init"} =>
        /\ ~call.raised
        /\ call.ndel = call.n
        /\ call.cleared = 0

C8_Witness ==
    /\ call.op = "set_profiles"
    /\ call.n = 3
    /\ call.ndel = 3
    /\ call.cleared = 0
    /\ Displayed = call.arg

\* C9: once constructed, the completion suggests from the very store the
\* combo box displays, so both always hold the same rows in the same order.
C9_CompletionSharesStore ==
    constructed =>
        /\ completion_model = model
        /\ Suggested = Displayed

C9_Witness ==
    /\ constructed
    /\ call.op = "set_profiles"
    /\ call.n > 0
    /\ Suggested = <<PingScan, IntenseScan>>
    /\ Displayed = <<PingScan, IntenseScan>>

\* C7: constructing HIGFrame with a str L, or _set_label(L), makes the
\* caption's bold text equal L, for any L; the shadow type stays NONE and the
\* label widget stays the same object.
C7_LabelRendered ==
    (fcall.op \in {"init", "_set_label"} /\ fcall.arg.type = "str") =>
        /\ EmphasizedText = fcall.arg.value
        /\ CaptionText = fcall.arg.value
        /\ shadow_type = "NONE"
        /\ label_widget = flabel
        /\ fcall.op = "_set_label" => flabel = fcall.pre_flabel

\* C10: the caption markup is "<b>" + str(label) + "</b>" with the label put
\* in unescaped; HIGFrame() without a label has the markup "<b>None</b>" and
\* shows the text None.
C10_MarkupVerbatim ==
    fcall.op \in {"init", "_set_label"} =>
        /\ fcall.arg.type = "str" =>
               flabel_label = <<60, 98, 62>> \o fcall.arg.value
                                  \o <<60, 47, 98, 62>>
        /\ fcall.arg.type = "NoneType" =>
               /\ flabel_label = <<60, 98, 62, 78, 111, 110, 101, 60, 47, 98, 62>>
               /\ CaptionText = <<78, 111, 110, 101>>

C10_Witness ==
    /\ fcall.op = "init"
    /\ fcall.arg = None
    /\ flabel_label = <<60, 98, 62, 78, 111, 110, 101, 60, 47, 98, 62>>
    /\ CaptionText = <<78, 111, 110, 101>>

====
